---- MODULE Spec2Model ----
(***************************************************************************)
(* Model of scripts/import_suppfiles.py: import of supplementary tables,   *)
(* p-value histogram summary (summarise_pvalues) and the batch loop of     *)
(* __main__.                                                               *)
(*                                                                         *)
(* Conventions.  Python positions are 0-based and are kept 0-based as      *)
(* VALUES; TLA+ sequences are 1-based containers, so element j of a Python *)
(* list s is s[j + 1].  A PValSum field left at its default NaN is a field *)
(* that is absent from the record (DOMAIN tells which fields are           *)
(* populated).  A call that raises returns [raise |-> <exception name>].   *)
(* p-values are numerators over PDen, covariate values are tenths, fdr is  *)
(* a numerator over FdrDen.                                                *)
(***************************************************************************)
EXTENDS Integers, Sequences, FiniteSets, TLC

\* ---------------------------------------------------------------- bounds
Breaks == 5
MaxRows == 5
MaxLen == 4
MaxVal == 2
MaxSum == 8
MaxMembers == 2

\* ------------------------------------------------------- configuration
\* --fdr is a float; 0.05 is FdrNum / FdrDen = 1 / 20
FdrDen == 20
DefaultFdr == 1
FdrSet == {DefaultFdr, FdrDen - 1}
NBins == Breaks - 1
PDen == 2 * NBins

VARIABLES pc, FDR, df, res, inarray, runs, counts, Class, out, input, done, log

vars == <<pc, FDR, df, res, inarray, runs, counts, Class, out, input, done, log>>

None == "None"
Idle == "idle"

\* ------------------------------------------------------ numpy helpers
RECURSIVE SumSeq(_)
SumSeq(s) == IF s = <<>> THEN 0 ELSE s[1] + SumSeq(Tail(s))

Front(s) == SubSeq(s, 1, Len(s) - 1)

\* s[k:] with a 0-based k that may exceed len(s)
SliceFrom(s, k) == SubSeq(s, k + 1, Len(s))

Flip(s) == [k \in 1..Len(s) |-> s[Len(s) + 1 - k]]

\* np.where(y)[0]: the 0-based positions of the True entries, ascending
Where(y) == SelectSeq([k \in 1..Len(y) |-> k - 1], LAMBDA j : y[j + 1])

\* np.diff
Diff(s) == [k \in 1..(Len(s) - 1) |-> s[k + 1] - s[k]]

\* np.cumsum
Cumsum(s) == [k \in 1..Len(s) |-> SumSeq(SubSeq(s, 1, k))]

AnyTrue(s) == \E k \in 1..Len(s) : s[k]

\* ------------------------------------------------------------- rle
rle_no_last(inarray_) ==
    LET ia == inarray_
        n == Len(ia)
    IN IF n = 0 THEN <<None, None, None>>
       ELSE LET y == [k \in 1..(n - 1) |-> ia[k + 1] # ia[k]]
                i == Where(y)
                z == Diff(<<-1>> \o i)
                p == Front(Cumsum(<<0>> \o z))
            IN <<z, p, [k \in 1..Len(i) |-> ia[i[k] + 1]]>>

rle(inarray_) ==
    LET ia == inarray_
        n == Len(ia)
    IN IF n = 0 THEN <<None, None, None>>
       ELSE LET y == [k \in 1..(n - 1) |-> ia[k + 1] # ia[k]]
                i == Append(Where(y), n - 1)
                z == Diff(<<-1>> \o i)
                p == Front(Cumsum(<<0>> \o z))
            IN <<z, p, [k \in 1..Len(i) |-> ia[i[k] + 1]]>>

\* --------------------------------------------------- get_hist_class
RECURSIVE Pow(_, _)
Pow(b, e) == IF e = 0 THEN 1 ELSE b * Pow(b, e - 1)

RECURSIVE Choose(_, _)
Choose(n, k) == IF k = 0 \/ k = n THEN 1 ELSE Choose(n - 1, k - 1) + Choose(n - 1, k)

\* b^n * P(X <= k) for X ~ Binomial(n, 1/b)
BinomCdfScaled(k, n, b) ==
    SumSeq([j \in 1..(k + 1) |-> Choose(n, j - 1) * Pow(b - 1, n - (j - 1))])

\* binom.ppf(1 - 1/breaks * fdr, n, 1/breaks): the least k whose cdf reaches
\* the probability, compared exactly (fdr = fdrnum / FdrDen)
BinomPpf(fdrnum, n, breaks) ==
    CHOOSE k \in 0..n :
        /\ FdrDen * breaks * BinomCdfScaled(k, n, breaks)
              >= (FdrDen * breaks - fdrnum) * Pow(breaks, n)
        /\ \A j \in 0..(k - 1) :
              FdrDen * breaks * BinomCdfScaled(j, n, breaks)
                 < (FdrDen * breaks - fdrnum) * Pow(breaks, n)

Classes == {"uniform", "anti-conservative", "conservative", "other"}

\* the branch taken for a mask; the loop of lines 150-158 runs it once per
\* element and every iteration assigns the same value
ClassOfMask(counts_over_qc) ==
    IF \A k \in 1..Len(counts_over_qc) : ~counts_over_qc[k]
    THEN "uniform"
    ELSE IF ~AnyTrue(SliceFrom(counts_over_qc, rle(counts_over_qc)[1][1] + 2))
    THEN "anti-conservative"
    ELSE IF ~AnyTrue(SliceFrom(Flip(counts_over_qc),
                               rle(Flip(counts_over_qc))[1][1] + 2))
    THEN "conservative"
    ELSE "other"

get_hist_class(counts_, breaks, fdr) ==
    LET qc == BinomPpf(fdr, SumSeq(counts_), breaks)
        counts_over_qc == [k \in 1..Len(counts_) |-> counts_[k] > qc]
    IN IF Len(counts_) = 0 THEN [raise |-> "UnboundLocalError"]
       ELSE [Class |-> ClassOfMask(counts_over_qc)]

\* ------------------------------------------------------- conversion
ClassOrder == <<"uniform", "anti-conservative", "conservative", "other">>

ColumnOf(y) == CHOOSE k \in 1..4 : ClassOrder[k] = y

classes ==
    [x \in Classes |->
        CASE x = "uniform" ->
               <<"same good", "improve, effects", "worsen", "worsen">>
          [] x = "anti-conservative" ->
               <<"effects lost", "same good", "worsen", "worsen">>
          [] x = "conservative" ->
               <<"improvement, no effects", "improvement, effects",
                 "same bad", "no improvement">>
          [] x = "other" ->
               <<"improvement, no effects", "improvement, effects",
                 "no improvement", "same bad">>]

conversion_transposed(x, y) == classes[y][ColumnOf(x)]

conversion(x, y) == classes[x][ColumnOf(y)]

\* ------------------------------------------------ tables of p-values
\* --vars default: basemean=10, fpkm=0.5, logcpm=-0.3, rpkm=0.5 (tenths),
\* in the order of the dict
VAR ==
    << [k |-> "basemean", v |-> 100], [k |-> "fpkm", v |-> 5],
       [k |-> "logcpm", v |-> -3], [k |-> "rpkm", v |-> 5] >>

VarNames == {VAR[j].k : j \in 1..Len(VAR)}

VarIndex(name) == (CHOOSE j \in 1..Len(VAR) : VAR[j].k = name)

\* p-values a table may hold: below 0, exactly 0, the middle of each bin,
\* exactly 1, above 1
MidPVals == {2 * b + 1 : b \in 0..(NBins - 1)}
PVals == {-1, 0, PDen, PDen + 1} \cup MidPVals

Pvalues(rows) == [k \in 1..Len(rows) |-> rows[k].pvalue]

SeqMin(s) == CHOOSE m \in {s[k] : k \in 1..Len(s)} : \A k \in 1..Len(s) : m <= s[k]
SeqMax(s) == CHOOSE m \in {s[k] : k \in 1..Len(s)} : \A k \in 1..Len(s) : m >= s[k]

\* np.histogram(pv, bins=np.linspace(0, 1, breaks)): breaks edges, hence
\* breaks - 1 bins; half-open bins, the last one closed; values outside
\* [0, 1] are not counted
BinOf(num, nb) == IF num = PDen THEN nb - 1 ELSE (num * nb) \div PDen

Histogram(pv, breaks) ==
    LET nb == breaks - 1
    IN [b \in 1..nb |->
          Cardinality({k \in 1..Len(pv) :
                          /\ pv[k] >= 0
                          /\ pv[k] <= PDen
                          /\ BinOf(pv[k], nb) = b - 1})]

\* line 275: not df.min()["pvalue"] >= 0 and df.max()["pvalue"] <= 1, which
\* Python reads as (not (min >= 0)) and (max <= 1); min and max of an empty
\* column are NaN and every comparison with NaN is False
OutOfRange(pv) ==
    LET min_ge_0 == pv # <<>> /\ SeqMin(pv) >= 0
        max_le_1 == pv # <<>> /\ SeqMax(pv) <= PDen
    IN (~min_ge_0) /\ max_le_1

\* lines 280-285: the first variable of var that is a column filters the rows
PresentVars(cols, var) == SelectSeq(var, LAMBDA e : e.k \in cols)

LastPresentFilter(df_, var) ==
    LET present == PresentVars(df_.cols, var)
    IN IF present = <<>> THEN [filt |-> None, pf |-> <<>>]
       ELSE LET e == present[Len(present)]
            IN [filt |-> e.k,
                pf |-> SelectSeq(df_.rows, LAMBDA r : r.cov[e.k] >= e.v)]

Filter(df_, var) ==
    LET present == PresentVars(df_.cols, var)
    IN IF present = <<>> THEN [filt |-> None, pf |-> <<>>]
       ELSE LET e == present[1]
            IN [filt |-> e.k,
                pf |-> SelectSeq(df_.rows, LAMBDA r : r.cov[e.k] >= e.v)]

\* lines 290-291: rle(...)[1][-1] > 0 on the mask count == 0
TruncatedAnchored(counts0) ==
    LET r == rle([k \in 1..Len(counts0) |-> counts0[k] = 0])
    IN /\ Len(r[2]) > 1
       /\ ~(r[3][Len(r[3])] /\ Len(r[2]) = 2)

Truncated(counts0) ==
    LET r == rle([k \in 1..Len(counts0) |-> counts0[k] = 0])
    IN r[2][Len(r[2])] > 0

\* estimate_pi0 with its defaults.  The value of the spline at the last
\* lambda is not computed here: spl tells whether it is at most 1 ("le1",
\* min(pi0, 1.0) keeps the numpy value) or above 1 ("gt1", min(pi0, 1.0)
\* is the Python float 1.0)
SplineOutcomes == {"le1", "gt1"}

estimate_pi0(pv, spl) ==
    IF ~(SeqMin(pv) >= 0 /\ SeqMax(pv) <= PDen)
    THEN [raise |-> "AssertionError"]
    ELSE IF spl = "gt1" THEN [pi0 |-> "1.0", numpy |-> FALSE]
    ELSE [pi0 |-> "est", numpy |-> TRUE]

PValSumNote(text) == [note |-> text]

EffectsBelow(pv, fdr) == Cardinality({k \in 1..Len(pv) : pv[k] * FdrDen < fdr * PDen})

\* lines 302-309, one stage: the estimate, "nan", or the exception
Pi0Stage(pv, c, spl) ==
    IF c \in {"uniform", "anti-conservative"}
    THEN LET e == estimate_pi0(pv, spl)
         IN IF "raise" \in DOMAIN e THEN e
            ELSE IF ~e.numpy THEN [raise |-> "AttributeError"]
            ELSE [pi0 |-> e.pi0]
    ELSE [pi0 |-> "nan"]

summarise_pvalues(df_, breaks, fdr, var, spl) ==
    LET pv == Pvalues(df_.rows)
        f == Filter(df_, var)
        pv_sets == SelectSeq(<<pv, Pvalues(f.pf)>>, LAMBDA i : i # <<>>)
        hcounts == [j \in 1..Len(pv_sets) |-> Histogram(pv_sets[j], breaks)]
        Cls == [j \in 1..Len(hcounts) |-> get_hist_class(hcounts[j], breaks, fdr).Class]
        stage == [j \in 1..Len(pv_sets) |-> Pi0Stage(pv_sets[j], Cls[j], spl[j])]
        raising == {j \in 1..Len(pv_sets) : "raise" \in DOMAIN stage[j]}
        full == [Type |-> IF Len(Cls) = 2 THEN <<"raw", f.filt>> ELSE <<"raw">>,
                 Class |-> Cls,
                 pi0 |-> [j \in 1..Len(pv_sets) |-> stage[j].pi0],
                 FDR_pval |-> [j \in 1..Len(pv_sets) |-> EffectsBelow(pv_sets[j], fdr)],
                 hist |-> hcounts]
    IN IF OutOfRange(pv) THEN PValSumNote("p-values not in 0 to 1 range")
       ELSE IF hcounts = <<>> THEN [raise |-> "IndexError"]
       ELSE IF Truncated(hcounts[1]) THEN PValSumNote("p-values are truncated")
       ELSE IF raising # {} THEN stage[CHOOSE j \in raising : \A i \in raising : j <= i]
       ELSE IF Len(Cls) = 2
            THEN [Conversion |-> conversion(Cls[1], Cls[2])] @@ full
            ELSE full

\* ----------------------------------------- the tables the runs draw from
\* rows in a fixed order: by p-value, then by the covariates
CovWeight(name) == Pow(2, VarIndex(name) - 1)

RowKey(r) ==
    (r.pvalue + 1) * 16
    + SumSeq([j \in 1..Len(VAR) |->
                IF VAR[j].k \in DOMAIN r.cov /\ r.cov[VAR[j].k] >= VAR[j].v
                THEN CovWeight(VAR[j].k) ELSE 0])

RECURSIVE SortedRows(_, _, _)
SortedRows(R, n, lo) ==
    IF n = 0 THEN {<<>>}
    ELSE UNION {{<<r>> \o s : s \in SortedRows(R, n - 1, RowKey(r))} :
                   r \in {x \in R : RowKey(x) >= lo}}

TablesOver(cols, R) ==
    {[cols |-> cols, rows |-> s] : s \in UNION {SortedRows(R, n, 0) : n \in 0..MaxRows}}

\* a covariate value is just below its threshold or exactly on it
CovChoices(cols) ==
    {f \in [cols -> UNION {{VAR[j].v - 1, VAR[j].v} : j \in 1..Len(VAR)}] :
        \A c \in cols : f[c] \in {VAR[VarIndex(c)].v - 1, VAR[VarIndex(c)].v}}

RowsOver(pvals, covs) == {[pvalue |-> p, cov |-> f] : p \in pvals, f \in covs}

\* no covariate: every p-value; one covariate (the first or the last
\* configured): p-values inside the bins; two covariates: rows on which
\* exactly one of them reaches its threshold
Tables ==
    TablesOver({}, RowsOver(PVals, CovChoices({})))
    \cup TablesOver({"basemean"}, RowsOver(MidPVals, CovChoices({"basemean"})))
    \cup TablesOver({"rpkm"}, RowsOver(MidPVals, CovChoices({"rpkm"})))
    \cup TablesOver({"fpkm", "rpkm"},
                    RowsOver(MidPVals,
                             {f \in CovChoices({"fpkm", "rpkm"}) :
                                 (f["fpkm"] >= 5) # (f["rpkm"] >= 5)}))

\* -------------------------------------------- summarise_pvalues, called
InitSum ==
    /\ pc = "call"
    /\ FDR \in FdrSet
    /\ df \in Tables
    /\ res = Idle
    /\ inarray = Idle /\ runs = Idle /\ counts = Idle /\ Class = Idle
    /\ out = Idle /\ input = Idle /\ done = Idle /\ log = Idle

Summarise ==
    /\ pc = "call"
    /\ \E spl \in [1..2 -> SplineOutcomes] :
          res' = summarise_pvalues(df, Breaks, FDR, VAR, spl)
    /\ pc' = "return"
    /\ UNCHANGED <<FDR, df, inarray, runs, counts, Class, out, input, done, log>>

NextSum == Summarise

SpecSum == InitSum /\ [][NextSum]_vars

\* ------------------------------------------------------- rle, called
InitRle ==
    /\ pc = "call"
    /\ inarray \in UNION {[1..n -> 0..MaxVal] : n \in 0..MaxLen}
    /\ runs = Idle
    /\ FDR = Idle /\ df = Idle /\ res = Idle /\ counts = Idle /\ Class = Idle
    /\ out = Idle /\ input = Idle /\ done = Idle /\ log = Idle

CallRle ==
    /\ pc = "call"
    /\ runs' = rle(inarray)
    /\ pc' = "return"
    /\ UNCHANGED <<FDR, df, res, inarray, counts, Class, out, input, done, log>>

NextRle == CallRle

SpecRle == InitRle /\ [][NextRle]_vars

\* ------------------------------------------------ get_hist_class, called
CountVectors ==
    {c \in [1..NBins -> 0..MaxSum] : SumSeq(c) <= MaxSum}

InitClass ==
    /\ pc = "call"
    /\ FDR \in FdrSet
    /\ counts \in CountVectors
    /\ Class = Idle
    /\ df = Idle /\ res = Idle /\ inarray = Idle /\ runs = Idle
    /\ out = Idle /\ input = Idle /\ done = Idle /\ log = Idle

Classify ==
    /\ pc = "call"
    /\ Class' = get_hist_class(counts, Breaks, FDR)
    /\ pc' = "return"
    /\ UNCHANGED <<FDR, df, res, inarray, runs, counts, out, input, done, log>>

NextClass == Classify

SpecClass == InitClass /\ [][NextClass]_vars

\* ------------------------------------------------------- column names
PValSumFields == {"Type", "Class", "Conversion", "pi0", "FDR_pval", "hist", "note"}

ColumnNames == {"gene", "PValue", "adj.P.Val", "padj", "baseMean"}

\* str.lower on the names above
Lower(c) ==
    CASE c = "PValue" -> "pvalue"
      [] c = "adj.P.Val" -> "adj.p.val"
      [] c = "baseMean" -> "basemean"
      [] c = "Type" -> "type"
      [] c = "Class" -> "class"
      [] c = "Conversion" -> "conversion"
      [] c = "FDR_pval" -> "fdr_pval"
      [] OTHER -> c

\* pv = re.compile("p.{0,4}val"), adj = re.compile("adj|fdr|corr"), searched
\* in the lower-case names above
PvSearch(lc) == lc \in {"pvalue", "adj.p.val", "fdr_pval"}

AdjSearch(lc) == lc \in {"adj.p.val", "padj", "fdr_pval"}

\* a frame is a table [columns, rows] or the one-row frame note() builds,
\* whose columns are the fields of PValSum
Columns(v) == IF "note" \in DOMAIN v THEN PValSumFields ELSE v.columns

\* a dict is a sequence of entries [k, v] in insertion order
note(filename, text) == << [k |-> filename, v |-> PValSumNote(text)] >>

filter_all_or_none(frames_) ==
    LET keep(e) == \E i \in Columns(e.v) : PvSearch(Lower(i)) /\ ~AdjSearch(Lower(i))
    IN IF \A j \in 1..Len(frames_) : keep(frames_[j]) THEN frames_ ELSE <<>>

filter_pvalue_tables(frames_) ==
    SelectSeq(frames_, LAMBDA e :
        \E i \in Columns(e.v) : PvSearch(Lower(i)) /\ ~AdjSearch(Lower(i)))

\* lines 114-127; the rows of the model hold no NaN, so dropna keeps them
summarise_pvalue_tables(t, var) ==
    LET pvalues == {c \in t.columns : PvSearch(Lower(c))}
        labels == {var[j].k : j \in 1..Len(var)}
        covs == IF t.rows = <<>> THEN {}
                ELSE {l \in labels : \E c \in t.columns : Lower(c) = l}
    IN IF Cardinality(pvalues) # 1 THEN [raise |-> "ValueError"]
       ELSE [cols |-> covs,
             rows |-> [j \in 1..Len(t.rows) |->
                         [pvalue |-> t.rows[j].pvalue,
                          cov |-> [c \in covs |-> t.rows[j].cov[c]]]]]

\* ----------------------------------------------------------- ingestion
Paths == {"a.csv", "b.xlsx", "GSE1_RAW.tar.gz"}

EndsWithTarGz(path) == path = "GSE1_RAW.tar.gz"

XlsSearch(path) == path = "b.xlsx"

\* gse.search(tar.name).group(0)
Gse(path) == "GSE1_"

Basename(path) == <<path>>

Indexes(S) == SelectSeq([j \in 1..MaxMembers |-> j], LAMBDA j : j \in S)

\* the tables a file of a run may hold: one row in the middle of every bin
\* and all of them above the basemean threshold; the same rows under an
\* adjusted p-value column only; a negative p-value; a p-value above 1
MidRows(v) ==
    [b \in 1..NBins |-> [pvalue |-> 2 * b - 1, cov |-> [c \in {"basemean"} |-> v]]]

OkTable == [columns |-> {"gene", "PValue", "padj", "baseMean"}, rows |-> MidRows(100)]

NoPvTable == [columns |-> {"gene", "adj.P.Val", "baseMean"}, rows |-> MidRows(100)]

NegTable ==
    [columns |-> {"gene", "PValue"},
     rows |-> << [pvalue |-> -1, cov |-> <<>>], [pvalue |-> 1, cov |-> <<>>] >>]

BigTable ==
    [columns |-> {"gene", "PValue"}, rows |-> << [pvalue |-> PDen + 1, cov |-> <<>>] >>]

BatchTables == {OkTable, NoPvTable, NegTable, BigTable}

\* what reading one file or archive member can give: an exception, or the
\* tables read (read_csv: one; read_excel: one per non-empty sheet)
CsvOutcomes == {[raise |-> "ParserError"]} \cup {[table |-> t] : t \in BatchTables}

read_csv(name, outcome) ==
    IF "raise" \in DOMAIN outcome THEN outcome
    ELSE [tabs |-> << [k |-> name, v |-> outcome.table] >>]

CsvReads(name) == {read_csv(name, o) : o \in CsvOutcomes}

ExcelReads(name) ==
    {[raise |-> "XLRDError"]}
    \cup UNION {{[tabs |-> [j \in 1..Len(Indexes(S)) |->
                              [k |-> name \o <<"-sheet-", ToString(Indexes(S)[j])>>,
                               v |-> a[Indexes(S)[j]]]]] :
                    a \in [S -> BatchTables]} : S \in SUBSET (1..MaxMembers)}

RECURSIVE Concat(_)
Concat(ss) == IF ss = <<>> THEN <<>> ELSE ss[1] \o Concat(Tail(ss))

\* lines 94-103
import_flat(path, read) ==
    IF "raise" \in DOMAIN read THEN note(Basename(path), read.raise)
    ELSE read.tabs

\* lines 77-91: reads[m] is what reading member m gave; an exception of a
\* member becomes its note
import_tar(path, reads) ==
    Concat([j \in 1..Len(reads) |->
              IF "raise" \in DOMAIN reads[j].read
              THEN note(<<Gse(path), reads[j].name>>, reads[j].read.raise)
              ELSE reads[j].read.tabs])

TarReads(path) ==
    UNION {{[j \in 1..Len(Indexes(S)) |->
               [name |-> ToString(Indexes(S)[j]),
                read |-> read_csv(<<Gse(path), ToString(Indexes(S)[j])>>,
                                  a[Indexes(S)[j]])]] :
              a \in [S -> CsvOutcomes]} :
           S \in SUBSET (1..MaxMembers)}

\* what import_flat / import_tar can return for a path, or the exception
\* tarfile.open lets through
Imports(path) ==
    IF EndsWithTarGz(path)
    THEN {[raise |-> "ReadError"]}
         \cup {[frames |-> import_tar(path, r)] : r \in TarReads(path)}
    ELSE IF XlsSearch(path)
    THEN {[frames |-> import_flat(path, r)] : r \in ExcelReads(Basename(path))}
    ELSE {[frames |-> import_flat(path, r)] : r \in CsvReads(Basename(path))}

\* ------------------------------------------------------ the batch loop
\* dict.update
RECURSIVE Update(_, _)
Update(d, entries) ==
    IF entries = <<>> THEN d
    ELSE Update((entries[1].k :> entries[1].v) @@ d, Tail(entries))

\* line 390-392: re.sub(r"^.*-(sheet-.*)", r"\1", k) + " from " + filename
OutKey(k, filename) ==
    IF k = filename THEN k
    ELSE LET at == {i \in 1..Len(k) : k[i] = "-sheet-"}
             sub == IF at = {} THEN k
                    ELSE LET i == CHOOSE i \in at : \A j \in at : j <= i
                         IN <<"sheet-">> \o SubSeq(k, i + 1, Len(k))
         IN sub \o <<" from ">> \o filename

\* pd.DataFrame.from_dict(v._asdict()): a dict of scalars only and no index
\* is refused ("If using all scalar values, you must pass an index")
AllScalar(v) == DOMAIN v \cap {"Type", "Class", "pi0", "FDR_pval", "hist"} = {}

\* lines 372-393 for one path, after the import; the result is the new out
\* and, when the iteration raises, the exception
LoopBody(out_, path, frames_, fdr, spl) ==
    LET filename == Basename(path)
        out1 == Update(out_, SelectSeq(frames_, LAMBDA e : "note" \in Columns(e.v)))
        kept == filter_pvalue_tables(frames_)
        tabs == [j \in 1..Len(kept) |-> summarise_pvalue_tables(kept[j].v, VAR)]
        bad1 == {j \in 1..Len(kept) : "raise" \in DOMAIN tabs[j]}
        pv_stats == [j \in 1..Len(kept) |->
                        summarise_pvalues(tabs[j], Breaks, fdr, VAR, spl)]
        bad2 == {j \in 1..Len(kept) : "raise" \in DOMAIN pv_stats[j]}
        bad3 == {j \in 1..Len(kept) : AllScalar(pv_stats[j])}
        First(B) == CHOOSE j \in B : \A i \in B : j <= i
        rows == [j \in 1..Len(kept) |->
                    [k |-> OutKey(kept[j].k, filename), v |-> pv_stats[j]]]
    IN IF kept = <<>> THEN [out |-> Update(out1, note(filename, "no pvalues"))]
       ELSE IF bad1 # {} THEN [out |-> out1, raise |-> tabs[First(bad1)].raise]
       ELSE IF bad2 # {} THEN [out |-> out1, raise |-> pv_stats[First(bad2)].raise]
       ELSE IF bad3 # {}
       THEN [out |-> Update(out1, SubSeq(rows, 1, First(bad3) - 1)),
             raise |-> "ValueError"]
       ELSE [out |-> Update(out1, rows)]

\* the paths of a run: any sub-list of PathList
PathList == <<"GSE1_RAW.tar.gz", "b.xlsx", "a.csv">>

Inputs ==
    {SelectSeq(PathList, LAMBDA p : p \in S) : S \in SUBSET Paths}

Init ==
    /\ pc = "loop"
    /\ FDR = DefaultFdr
    /\ input \in Inputs
    /\ done = 0
    /\ out = <<>>
    /\ log = {}
    /\ res = Idle
    /\ df = Idle /\ inarray = Idle /\ runs = Idle /\ counts = Idle /\ Class = Idle

\* one iteration of the for loop of line 371
Iterate ==
    /\ pc = "loop"
    /\ done < Len(input)
    /\ \E imp \in Imports(input[done + 1]), s \in SplineOutcomes :
          IF "raise" \in DOMAIN imp
          THEN /\ pc' = "raised"
               /\ res' = imp
               /\ UNCHANGED <<out, done, log>>
          ELSE LET b == LoopBody(out, input[done + 1], imp.frames, FDR, <<s, s>>)
               IN /\ out' = b.out
                  /\ IF "raise" \in DOMAIN b
                     THEN /\ pc' = "raised"
                          /\ res' = [raise |-> b.raise]
                          /\ UNCHANGED <<done, log>>
                     ELSE /\ pc' = "loop"
                          /\ res' = res
                          /\ done' = done + 1
                          /\ log' = log \cup {[file |-> input[done + 1],
                                               frames |-> imp.frames]}
    /\ UNCHANGED <<FDR, df, inarray, runs, counts, Class, input>>

\* lines 396-400: pd.concat refuses an empty list
Finish ==
    /\ pc = "loop"
    /\ done = Len(input)
    /\ IF DOMAIN out = {}
       THEN pc' = "raised" /\ res' = [raise |-> "ValueError"]
       ELSE pc' = "done" /\ res' = res
    /\ UNCHANGED <<FDR, df, inarray, runs, counts, Class, out, input, done, log>>

Next == Iterate \/ Finish

Spec == Init /\ [][Next]_vars

\* ============================================================== claims
OutOfRangeNote == PValSumNote("p-values not in 0 to 1 range")

TruncatedNote == PValSumNote("p-values are truncated")

NoPvaluesNote == PValSumNote("no pvalues")

Returned == pc = "return"

Assembled == pc = "return" /\ "Type" \in DOMAIN res

\* C1 (as stated): summarise_pvalues returns the record with Note
\* "p-values not in 0 to 1 range" for every table whose minimum p-value is
\* below 0 or whose maximum is above 1.
C1_RejectsOutOfRange ==
    (/\ Returned
     /\ df.rows # <<>>
     /\ \/ SeqMin(Pvalues(df.rows)) < 0
        \/ SeqMax(Pvalues(df.rows)) > PDen)
    => res = OutOfRangeNote

\* C2 (as stated): raw counts with a zero run at the end and zero bins
\* elsewhere give the record "p-values are truncated"; raw counts whose zero
\* bins are one run at the end, after non-zero bins, are not flagged.
C2_TrailingZeroRunNotFlagged ==
    (Returned /\ df.rows # <<>> /\ res # OutOfRangeNote)
    => LET c == Histogram(Pvalues(df.rows), Breaks)
           n == Len(c)
       IN /\ (/\ c[n] = 0
              /\ \E i, j \in 1..n : i < j /\ c[i] = 0 /\ c[j] > 0)
             => res = TruncatedNote
          /\ (\E m \in 1..(n - 1) :
                 /\ \A k \in 1..m : c[k] > 0
                 /\ \A k \in (m + 1)..n : c[k] = 0)
             => res # TruncatedNote

\* C2 (amended): of the tables that get past the range test, exactly those
\* whose raw counts have both a zero bin and a non-zero bin give the record
\* "p-values are truncated"; a single zero run at the end is flagged too.
C2_TruncatedIffMixedBins ==
    (Returned /\ df.rows # <<>> /\ res # OutOfRangeNote)
    => LET c == Histogram(Pvalues(df.rows), Breaks)
       IN (res = TruncatedNote)
          <=> (/\ \E k \in 1..Len(c) : c[k] = 0
               /\ \E k \in 1..Len(c) : c[k] > 0)

C2_Witness ==
    /\ Returned
    /\ df.rows # <<>>
    /\ LET c == Histogram(Pvalues(df.rows), Breaks)
       IN \E m \in 1..(Len(c) - 1) :
             /\ \A k \in 1..m : c[k] > 0
             /\ \A k \in (m + 1)..Len(c) : c[k] = 0
    /\ res = TruncatedNote

\* C6 (as stated): in an assembled record Type, Class, pi0, FDR_pval and
\* hist have one length, which is 1 when no configured variable is a column
\* and 2 when one is; Conversion is populated iff the length is 2, and then
\* Type is <<"raw", first configured variable present>>.
C6_TwoStagesWheneverFiltered ==
    Assembled
    => LET n == Len(res.Type)
           present == {j \in 1..Len(VAR) : VAR[j].k \in df.cols}
       IN /\ Len(res.Class) = n /\ Len(res.pi0) = n
          /\ Len(res.FDR_pval) = n /\ Len(res.hist) = n
          /\ (present = {}) => n = 1
          /\ (present # {}) => n = 2
          /\ ("Conversion" \in DOMAIN res) <=> (n = 2)
          /\ (n = 2) =>
               res.Type = <<"raw", VAR[CHOOSE j \in present :
                                          \A i \in present : j <= i].k>>

\* C6 (amended): the length is 2 exactly when a configured variable is a
\* column and at least one row reaches the threshold of the first such
\* variable, and 1 otherwise; the rest as stated.
C6_StagesOfRecord ==
    Assembled
    => LET n == Len(res.Type)
           present == {j \in 1..Len(VAR) : VAR[j].k \in df.cols}
           first == CHOOSE j \in present : \A i \in present : j <= i
           passing == {k \in 1..Len(df.rows) :
                          df.rows[k].cov[VAR[first].k] >= VAR[first].v}
       IN /\ Len(res.Class) = n /\ Len(res.pi0) = n
          /\ Len(res.FDR_pval) = n /\ Len(res.hist) = n
          /\ n \in {1, 2}
          /\ (n = 2) <=> (present # {} /\ passing # {})
          /\ ("Conversion" \in DOMAIN res) <=> (n = 2)
          /\ (n = 1) => res.Type = <<"raw">>
          /\ (n = 2) => res.Type = <<"raw", VAR[first].k>>

C6_Witness ==
    /\ Assembled
    /\ df.cols = {"fpkm", "rpkm"}
    /\ res.Type = <<"raw", "fpkm">>
    /\ Len(res.hist) = 2
    /\ "Conversion" \in DOMAIN res

ConversionLabels ==
    {"same good", "improve, effects", "worsen", "effects lost",
     "improvement, no effects", "improvement, effects", "same bad",
     "no improvement"}

\* C8: conversion is defined on the 16 pairs of classes and gives one of the
\* eight labels, "same good" for (uniform, uniform) and "improvement,
\* effects" for (conservative, anti-conservative); the Conversion of a
\* two-stage record is the entry in the row of Class[0] and the column of
\* Class[1].
C8_Conversion ==
    /\ \A x, y \in Classes : conversion(x, y) \in ConversionLabels
    /\ conversion("uniform", "uniform") = "same good"
    /\ conversion("conservative", "anti-conservative") = "improvement, effects"
    /\ (Assembled /\ Len(res.Type) = 2)
       => res.Conversion = classes[res.Class[1]][ColumnOf(res.Class[2])]

C8_Witness ==
    /\ Assembled
    /\ Len(res.Type) = 2
    /\ res.Class = <<"uniform", "anti-conservative">>
    /\ res.Conversion = "improve, effects"

\* C10 (as stated): every count vector of an assembled record has exactly
\* breaks entries.
C10_HistHasBreaksEntries ==
    Assembled => \A j \in 1..Len(res.hist) : Len(res.hist[j]) = Breaks

\* C3 (as stated): when exactly one of at least 4 bins is over qc,
\* get_hist_class gives "anti-conservative" if it is bin 0 and
\* "conservative" if it is the last bin.
C3_PeakAtEitherEnd ==
    (Returned /\ Len(counts) >= 4)
    => LET qc == BinomPpf(FDR, SumSeq(counts), Breaks)
           over == {k \in 1..Len(counts) : counts[k] > qc}
       IN /\ (over = {1}) => Class = [Class |-> "anti-conservative"]
          /\ (over = {Len(counts)}) => Class = [Class |-> "conservative"]

RECURSIVE Expand(_, _)
Expand(lengths, values) ==
    IF lengths = <<>> THEN <<>>
    ELSE [k \in 1..lengths[1] |-> values[1]] \o Expand(Tail(lengths), Tail(values))

\* C7: the runs rle returns rebuild its input, their lengths add up to the
\* length of the input, the starts begin at 0 and grow by the run lengths,
\* neighbouring runs hold different values, and the empty input gives the
\* absent result.
C7_RleRoundTrip ==
    Returned
    => IF inarray = <<>> THEN runs = <<None, None, None>>
       ELSE LET z == runs[1]
                p == runs[2]
                v == runs[3]
            IN /\ Len(z) = Len(p) /\ Len(z) = Len(v)
               /\ SumSeq(z) = Len(inarray)
               /\ \A k \in 1..Len(z) : z[k] >= 1
               /\ Expand(z, v) = inarray
               /\ p[1] = 0
               /\ \A k \in 1..(Len(p) - 1) : p[k + 1] = p[k] + z[k] /\ p[k + 1] > p[k]
               /\ \A k \in 1..(Len(v) - 1) : v[k] # v[k + 1]

C7_Witness ==
    /\ Returned
    /\ Len(inarray) = MaxLen
    /\ Len(runs[1]) = 3
    /\ \E k \in 1..3 : runs[1][k] = 2

\* frames of the log
IsNote(v) == "note" \in DOMAIN v

HasPvalues(v) == ~IsNote(v) /\ "PValue" \in v.columns

LacksPvalues(v) == ~IsNote(v) /\ "PValue" \notin v.columns

Count(frames_, P(_)) == Cardinality({j \in 1..Len(frames_) : P(frames_[j].v)})

NoPvaluesKeys(path) ==
    {k \in DOMAIN out : k[Len(k)] = path /\ out[k] = NoPvaluesNote}

\* C4 (as stated): a run does not stop on an exception raised for a table
\* whose p-values are out of range, neither by the assertion of
\* estimate_pi0 nor when the row of its record is built.
C4_InvalidTablesDoNotAbort ==
    ~(/\ pc = "raised"
      /\ done < Len(input)
      /\ res.raise \in {"AssertionError", "ValueError"})

\* C5 (as stated): in the final output every table without a p-value column
\* is covered by a record of its file with Note "no pvalues", also when
\* another table of the file has a p-value column.
C5_RecordForTableWithoutPvalues ==
    (pc = "done")
    => \A e \in log :
          (Count(e.frames, LacksPvalues) > 0) => NoPvaluesKeys(e.file) # {}

\* C5 (amended): a file none of whose tables has a p-value column has one
\* record, under the file's name, with Note "no pvalues" and nothing else
\* populated; once a table of the file has a p-value column, no record of
\* the file says "no pvalues".
C5_NoPvaluesPerFile ==
    \A e \in log :
       /\ (Count(e.frames, HasPvalues) = 0)
          => /\ Basename(e.file) \in DOMAIN out
             /\ out[Basename(e.file)] = NoPvaluesNote
             /\ NoPvaluesKeys(e.file) = {Basename(e.file)}
       /\ (Count(e.frames, HasPvalues) > 0) => NoPvaluesKeys(e.file) = {}

C5_Witness ==
    /\ pc = "done"
    /\ \E e \in log :
          /\ Count(e.frames, LacksPvalues) = 2
          /\ Count(e.frames, HasPvalues) = 0
          /\ out[Basename(e.file)] = NoPvaluesNote
    /\ \E e \in log :
          /\ Count(e.frames, LacksPvalues) > 0
          /\ Count(e.frames, HasPvalues) > 0
          /\ NoPvaluesKeys(e.file) = {}

\* C9 (as stated): in the final output the note of every failed read is
\* still there, under the key it was stored with.
C9_IngestionNoteKept ==
    (pc = "done")
    => \A e \in log : \A j \in 1..Len(e.frames) :
          IsNote(e.frames[j].v)
          => /\ e.frames[j].k \in DOMAIN out
             /\ out[e.frames[j].k] = e.frames[j].v

====
